---- MODULE Spec2Model ----
(***************************************************************************)
(* A model of cpd_dataset: the distribution factory, the description       *)
(* builder, the configuration validator/parser, the sample generator and   *)
(* the pipeline driver.                                                    *)
(*                                                                         *)
(* Python values are tagged records, so that isinstance() and truthiness   *)
(* are computed as the interpreter computes them.  A call either returns   *)
(* (Ok) or raises (Raise).                                                 *)
(***************************************************************************)
EXTENDS Integers, Sequences, FiniteSets, TLC

VARIABLES
    d_name, d_params, d_op, d_result,          \* a call of the distribution factory
    g_distributions, g_lengths, g_result,      \* a call of generate_sample
    b_name, b_samples_length, b_samples_distributions, b_lastOp, b_built,
                                               \* a DatasetDescriptionBuilder
    config, pc, outcome, descriptions,         \* a run of main / a ConfigParser
    idx, genCalls, sinkCalls,                  \* generate_dataset's loop
    itRound, itPos, itOut                      \* an iteration over the ConfigParser

vars == <<d_name, d_params, d_op, d_result,
          g_distributions, g_lengths, g_result,
          b_name, b_samples_length, b_samples_distributions, b_lastOp, b_built,
          config, pc, outcome, descriptions, idx, genCalls, sinkCalls,
          itRound, itPos, itOut>>

distrVars   == <<d_name, d_params, d_op, d_result>>
genVars     == <<g_distributions, g_lengths, g_result>>
builderVars == <<b_name, b_samples_length, b_samples_distributions, b_lastOp, b_built>>
parserVars  == <<config, pc, outcome, descriptions>>
driverVars  == <<idx, genCalls, sinkCalls>>
iterVars    == <<itRound, itPos, itOut>>

\* The value of the variables of a component that a specification does not run.
Idle == "idle"

DistrIdle   == d_name = Idle /\ d_params = Idle /\ d_op = Idle /\ d_result = Idle
GenIdle     == g_distributions = Idle /\ g_lengths = Idle /\ g_result = Idle
BuilderIdle == /\ b_name = Idle /\ b_samples_length = Idle
               /\ b_samples_distributions = Idle /\ b_lastOp = Idle /\ b_built = Idle
ParserIdle  == config = Idle /\ pc = Idle /\ outcome = Idle /\ descriptions = Idle
DriverIdle  == idx = 0 /\ genCalls = <<>> /\ sinkCalls = <<>>
IterIdle    == itRound = 0 /\ itPos = 0 /\ itOut = <<>>

(***************************************************************************)
(* Bounds of the model.                                                    *)
(***************************************************************************)
MaxEntries == 2      \* entries in a config
MaxSegs    == 2      \* segments in a list of lengths, distributions or parameters
MaxIters   == 2      \* iterations started over one ConfigParser

SeqsUpTo(S, lo, hi) == UNION {[1..n -> S] : n \in lo..hi}

(***************************************************************************)
(* Python values and call results.                                         *)
(***************************************************************************)
PyNone     == [t |-> "none"]
PyStr(s)   == [t |-> "str", v |-> s]
PyInt(i)   == [t |-> "int", v |-> i]
PyList(q)  == [t |-> "list", v |-> q]
PyDict(f)  == [t |-> "dict", v |-> f]

\* bool(x)
Truthy(x) ==
    CASE x.t = "none" -> FALSE
      [] x.t = "str"  -> x.v # ""
      [] x.t = "int"  -> x.v # 0
      [] x.t = "list" -> Len(x.v) > 0
      [] x.t = "dict" -> DOMAIN x.v # {}

\* isinstance(x, ty) for ty in int, str, list, dict
IsInstance(x, ty) == x.t = ty

\* dict.get(key, None)
Get(d, key) == IF key \in DOMAIN d.v THEN d.v[key] ELSE PyNone

Ok(v) == [ok |-> TRUE, val |-> v]
Raise(exc, what, info) == [ok |-> FALSE, exc |-> exc, what |-> what, info |-> info]
NoInfo == [index |-> -1]

\* zip(a, b): the pairs up to the shorter of the two
Min(a, b) == IF a < b THEN a ELSE b
Zip(a, b) == [j \in 1..Min(Len(a), Len(b)) |-> <<a[j], b[j]>>]

(***************************************************************************)
(* distributions.py                                                        *)
(***************************************************************************)
NORMAL   == "normal"
MEAN_KEY == "mean"
VAR_KEY  == "variance"

\* float(s) on the parameter strings of the model; the values are whole numbers
ParseFloat(s) ==
    CASE s = "0.0"  -> Ok(0)
      [] s = "1.0"  -> Ok(1)
      [] s = "10.0" -> Ok(10)
      [] s = "-1.0" -> Ok(-1)
      [] OTHER      -> Raise("ValueError", "could not convert string to float", NoInfo)

\* NormalDistribution.__init__
NormalDistribution(mean, var) == [cls |-> "NormalDistribution", mean |-> mean, variance |-> var]

\* from_params without the check of the number of parameters
from_params_no_count(params) ==
    IF MEAN_KEY \notin DOMAIN params THEN Raise("KeyError", MEAN_KEY, NoInfo)
    ELSE LET m == ParseFloat(params[MEAN_KEY]) IN
         IF ~m.ok THEN m
         ELSE IF VAR_KEY \notin DOMAIN params THEN Raise("KeyError", VAR_KEY, NoInfo)
         ELSE LET v == ParseFloat(params[VAR_KEY]) IN
              IF ~v.ok THEN v
              ELSE IF v.val < 0
                   THEN Raise("ValueError", "Variance cannot be less than 0", NoInfo)
                   ELSE Ok(NormalDistribution(m.val, v.val))

\* NormalDistribution.from_params
from_params(params) ==
    IF Cardinality(DOMAIN params) # 2
    THEN Raise("ValueError", "Normal distribution must have 2 parameters", NoInfo)
    ELSE IF MEAN_KEY \notin DOMAIN params THEN Raise("KeyError", MEAN_KEY, NoInfo)
    ELSE LET m == ParseFloat(params[MEAN_KEY]) IN
         IF ~m.ok THEN m
         ELSE IF VAR_KEY \notin DOMAIN params THEN Raise("KeyError", VAR_KEY, NoInfo)
         ELSE LET v == ParseFloat(params[VAR_KEY]) IN
              IF ~v.ok THEN v
              ELSE IF v.val < 0
                   THEN Raise("ValueError", "Variance cannot be less than 0", NoInfo)
                   ELSE Ok(NormalDistribution(m.val, v.val))

\* Distribution.from_str: a match statement with one case and no default, so
\* that every other name falls off the end of the function, which returns None
from_str(name, params) ==
    IF name = NORMAL THEN from_params(params) ELSE Ok(PyNone)

IsDistribution(x) == "cls" \in DOMAIN x

\* The inputs of the factory: names, and mappings from any set of keys.
DistrNames  == {"normal", "poisson"}
ParamKeys   == {"mean", "variance", "scale", "shift"}
ParamValues == {"0.0", "-1.0", "abc"}
ParamDicts  == UNION {[K -> ParamValues] : K \in SUBSET ParamKeys}

DistrInit ==
    /\ d_name \in DistrNames
    /\ d_params \in ParamDicts
    /\ d_op = "none"
    /\ d_result = PyNone
    /\ GenIdle /\ BuilderIdle /\ ParserIdle /\ DriverIdle /\ IterIdle

CallFromStr ==
    /\ d_op = "none"
    /\ d_op' = "from_str"
    /\ d_result' = from_str(d_name, d_params)
    /\ UNCHANGED <<d_name, d_params, genVars, builderVars, parserVars, driverVars, iterVars>>

CallFromParams ==
    /\ d_op = "none"
    /\ d_op' = "from_params"
    /\ d_result' = from_params(d_params)
    /\ UNCHANGED <<d_name, d_params, genVars, builderVars, parserVars, driverVars, iterVars>>

DistrNext == CallFromStr \/ CallFromParams
SpecDistr == DistrInit /\ [][DistrNext]_vars

\* The errors of the factory, by the taxonomy of the error handling design.
IsMalformedParameterError(r) ==
    /\ ~r.ok
    /\ \/ r.exc = "ValueError" /\ r.what = "Normal distribution must have 2 parameters"
       \/ r.exc = "KeyError"
       \/ r.exc = "ValueError" /\ r.what = "could not convert string to float"
IsUnknownDistributionError(r) == ~r.ok /\ r.what = "unknown distribution"

\* C1: from_str called with a name that is not a registered canonical name
\* fails with an unknown-distribution error and never returns a value.
C1_UnknownNameFails ==
    (d_op = "from_str" /\ d_name # NORMAL) => IsUnknownDistributionError(d_result)

\* C8: from_params succeeds only when the key set of params is exactly
\* {mean, variance}; for every other key set it fails with a malformed-parameter
\* error (never a domain error) and returns no instance.
C8_ExactKeySet ==
    d_op = "from_params" =>
        /\ d_result.ok => DOMAIN d_params = {MEAN_KEY, VAR_KEY}
        /\ DOMAIN d_params # {MEAN_KEY, VAR_KEY} => IsMalformedParameterError(d_result)

\* C8 witness: from_params was called with two keys that are not both mean
\* and variance, and raised KeyError.
C8_Witness ==
    /\ d_op = "from_params"
    /\ DOMAIN d_params = {MEAN_KEY, "scale"}
    /\ ~d_result.ok
    /\ d_result.exc = "KeyError"

(***************************************************************************)
(* generator.py                                                            *)
(***************************************************************************)
RECURSIVE Flatten(_)
Flatten(arrays) ==
    IF arrays = <<>> THEN <<>> ELSE Head(arrays) \o Flatten(Tail(arrays))

RECURSIVE Sum(_)
Sum(q) == IF q = <<>> THEN 0 ELSE Head(q) + Sum(Tail(q))

\* The first call that raised, if any, as a list comprehension propagates it
FirstRaise(results) ==
    LET bad == {j \in 1..Len(results) : ~results[j].ok} IN
    IF bad = {} THEN Ok(PyNone)
    ELSE results[CHOOSE j \in bad : \A k \in bad : j <= k]

\* scipy_sample drawing one value too many
scipy_sample_one_more(d, length) ==
    IF ~IsDistribution(d)
    THEN Raise("AttributeError", "'NoneType' object has no attribute 'scipy_sample'", NoInfo)
    ELSE IF length < 0
    THEN Raise("ValueError", "negative dimensions are not allowed", NoInfo)
    ELSE Ok([k \in 1..(length + 1) |-> [law |-> d]])

\* NormalDistribution.scipy_sample: length values drawn under the law of d.
\* A drawn value is represented by the law it was drawn under.
scipy_sample(d, length) ==
    IF ~IsDistribution(d)
    THEN Raise("AttributeError", "'NoneType' object has no attribute 'scipy_sample'", NoInfo)
    ELSE IF length < 0
    THEN Raise("ValueError", "negative dimensions are not allowed", NoInfo)
    ELSE Ok([k \in 1..length |-> [law |-> d]])

\* np.concatenate: a list of no arrays is an error
concatenate(arrays) ==
    IF arrays = <<>>
    THEN Raise("ValueError", "need at least one array to concatenate", NoInfo)
    ELSE Ok(Flatten(arrays))

\* ScipyDatasetGenerator.generate_sample
generate_sample(distributions, lengths) ==
    LET pairs == Zip(distributions, lengths)
        drawn == [j \in 1..Len(pairs) |-> scipy_sample(pairs[j][1], pairs[j][2])]
    IN  IF FirstRaise(drawn).ok
        THEN concatenate([j \in 1..Len(drawn) |-> drawn[j].val])
        ELSE FirstRaise(drawn)

\* The inputs of the generator.
LengthValues == {-1, 0, 1, 2}
Laws == {NormalDistribution(0, 1), NormalDistribution(10, 1)}

GenInit ==
    /\ g_distributions \in SeqsUpTo(Laws, 0, MaxSegs)
    /\ g_lengths \in SeqsUpTo(LengthValues, 0, MaxSegs)
    /\ g_result = PyNone
    /\ DistrIdle /\ BuilderIdle /\ ParserIdle /\ DriverIdle /\ IterIdle

GenerateSample ==
    /\ g_result = PyNone
    /\ g_result' = generate_sample(g_distributions, g_lengths)
    /\ UNCHANGED <<g_distributions, g_lengths,
                   distrVars, builderVars, parserVars, driverVars, iterVars>>

GenNext == GenerateSample
SpecGen == GenInit /\ [][GenNext]_vars

GenCalled == g_result # PyNone

\* accumulate(lengths)[:-1], as SampleDescription.changepoints computes it
Accumulate(q) == [j \in 1..Len(q) |-> Sum(SubSeq(q, 1, j))]
ChangepointsOf(lengths) ==
    IF lengths = <<>> THEN <<>> ELSE SubSeq(Accumulate(lengths), 1, Len(lengths) - 1)

\* The boundaries of segment j: changepoints[j-1] and changepoints[j], with
\* 0 before the first change point and the total length after the last one.
SegStart(lengths, j) == IF j = 1 THEN 0 ELSE ChangepointsOf(lengths)[j - 1]
SegEnd(lengths, j)   == IF j = Len(lengths) THEN Sum(lengths) ELSE ChangepointsOf(lengths)[j]

NonNegative(lengths) == \A j \in 1..Len(lengths) : lengths[j] >= 0

\* The result is the flat sequence in which segment j, drawn from
\* distributions[j], has lengths[j] values at [SegStart, SegEnd).
Segmented(result, distributions, lengths) ==
    /\ result.ok
    /\ Len(result.val) = Sum(lengths)
    /\ \A j \in 1..Len(lengths) :
        /\ SegEnd(lengths, j) - SegStart(lengths, j) = lengths[j]
        /\ \A k \in 1..Len(result.val) :
              (SegStart(lengths, j) < k /\ k <= SegEnd(lengths, j))
                  => result.val[k].law = distributions[j]

\* The generator raises no error of its own: any raise is taken for the
\* alignment error.
IsAlignmentError(r) == ~r.ok

\* C2: generate_sample with len(distributions) # len(lengths) fails with a
\* misaligned-inputs error and never returns a truncated sequence.
C2_MisalignedFails ==
    (GenCalled /\ Len(g_distributions) # Len(g_lengths)) => IsAlignmentError(g_result)

\* C4 as claimed: for index-aligned distributions and lengths of equal size
\* generate_sample returns the flat sequence of sum(lengths) values in which
\* segment j occupies [changepoints[j-1], changepoints[j]).
C4_EqualSizeSegmented ==
    (GenCalled /\ Len(g_distributions) = Len(g_lengths) /\ NonNegative(g_lengths))
        => Segmented(g_result, g_distributions, g_lengths)

\* C4 as amended: the same, for at least one segment.
C4_NonEmptySegmented ==
    (/\ GenCalled
     /\ Len(g_distributions) = Len(g_lengths)
     /\ Len(g_lengths) >= 1
     /\ NonNegative(g_lengths))
        => Segmented(g_result, g_distributions, g_lengths)

\* C4 witness: two segments of different laws, the first one empty.
C4_Witness ==
    /\ GenCalled
    /\ Len(g_lengths) = 2 /\ Len(g_distributions) = 2
    /\ g_lengths[1] = 0 /\ g_lengths[2] = 2
    /\ g_distributions[1] # g_distributions[2]
    /\ g_result.ok /\ Len(g_result.val) = 2

(***************************************************************************)
(* dataset_description.py                                                  *)
(***************************************************************************)
AssertionError(what) == Raise("AssertionError", what, NoInfo)

\* SampleDescription.__init__
SampleDescription(name, samples_length, samples_distributions) ==
    IF Len(samples_length) # Len(samples_distributions)
    THEN AssertionError("len(self._samples_length) == len(self._samples_distributions)")
    ELSE Ok([name |-> name,
             samples_length |-> samples_length,
             samples_distributions |-> samples_distributions])

\* SampleDescription.changepoints
changepoints(descr) == ChangepointsOf(descr.samples_length)

\* The attributes a SampleDescription instance has.
SampleDescriptionAttrs ==
    {"_name", "_samples_length", "_samples_distributions", "changepoints", "to_asciidoc"}

\* build without the assertions on the sizes of the lists
build_no_size_check(name, samples_length, samples_distributions) ==
    IF ~Truthy(name) THEN AssertionError("self._name")
    ELSE IF ~Truthy(samples_length) THEN AssertionError("self._samples_length")
    ELSE IF ~Truthy(samples_distributions) THEN AssertionError("self._samples_distributions")
    ELSE Ok([name |-> name.v,
             samples_length |-> samples_length.v,
             samples_distributions |-> samples_distributions.v])

\* DatasetDescriptionBuilder.build, on the three fields of the builder
build(name, samples_length, samples_distributions) ==
    IF ~Truthy(name) THEN AssertionError("self._name")
    ELSE IF ~Truthy(samples_length) THEN AssertionError("self._samples_length")
    ELSE IF ~Truthy(samples_distributions) THEN AssertionError("self._samples_distributions")
    ELSE IF Len(samples_length.v) # Len(samples_distributions.v)
    THEN AssertionError("len(self._samples_length) == len(self._samples_distributions)")
    ELSE SampleDescription(name.v, samples_length.v, samples_distributions.v)

\* The arguments of the setters.
BuilderNames   == {"", "A", "B"}
BuilderLengths == SeqsUpTo({1, 2}, 0, MaxSegs)
BuilderDistrs  == SeqsUpTo(Laws, 0, MaxSegs)

\* DatasetDescriptionBuilder.__init__
BuilderInit ==
    /\ b_name = PyNone
    /\ b_samples_length = PyNone
    /\ b_samples_distributions = PyNone
    /\ b_lastOp = "__init__"
    /\ b_built = PyNone
    /\ DistrIdle /\ GenIdle /\ ParserIdle /\ DriverIdle /\ IterIdle

\* b_built is what the last call returned: None for a setter.
set_name ==
    \E name \in BuilderNames :
        /\ b_name' = PyStr(name)
        /\ b_lastOp' = "set_name"
        /\ b_built' = PyNone
        /\ UNCHANGED <<b_samples_length, b_samples_distributions,
                       distrVars, genVars, parserVars, driverVars, iterVars>>

set_samples_lengths ==
    \E samples_lengths \in BuilderLengths :
        /\ b_samples_length' = PyList(samples_lengths)
        /\ b_lastOp' = "set_samples_lengths"
        /\ b_built' = PyNone
        /\ UNCHANGED <<b_name, b_samples_distributions,
                       distrVars, genVars, parserVars, driverVars, iterVars>>

set_samples_distributions ==
    \E samples_distributions \in BuilderDistrs :
        /\ b_samples_distributions' = PyList(samples_distributions)
        /\ b_lastOp' = "set_samples_distributions"
        /\ b_built' = PyNone
        /\ UNCHANGED <<b_name, b_samples_length,
                       distrVars, genVars, parserVars, driverVars, iterVars>>

Build ==
    /\ b_lastOp' = "build"
    /\ b_built' = build(b_name, b_samples_length, b_samples_distributions)
    /\ UNCHANGED <<b_name, b_samples_length, b_samples_distributions,
                   distrVars, genVars, parserVars, driverVars, iterVars>>

BuilderNext == set_name \/ set_samples_lengths \/ set_samples_distributions \/ Build
SpecBuilder == BuilderInit /\ [][BuilderNext]_vars

AllSet ==
    b_name # PyNone /\ b_samples_length # PyNone /\ b_samples_distributions # PyNone
SameSize == Len(b_samples_length.v) = Len(b_samples_distributions.v)
AllNonEmpty ==
    b_name.v # "" /\ b_samples_length.v # <<>> /\ b_samples_distributions.v # <<>>

\* A yielded description holds the value each field was last set to, and
\* has as many lengths as distributions, at least one.
YieldsTheFields(r) ==
    /\ r.val.name = b_name.v
    /\ r.val.samples_length = b_samples_length.v
    /\ r.val.samples_distributions = b_samples_distributions.v
    /\ Len(r.val.samples_length) = Len(r.val.samples_distributions)
    /\ Len(r.val.samples_length) >= 1

\* C10 as claimed: build() yields a description if and only if all three
\* fields have been set and the two lists have the same size; a yielded
\* description holds the most recently set values and has a segment.
C10_BuildIffSetAndAligned ==
    b_lastOp = "build" =>
        /\ b_built.ok <=> (AllSet /\ SameSize)
        /\ b_built.ok => YieldsTheFields(b_built)

\* C10 as amended: build() yields a description if and only if all three
\* fields have been set to non-empty values and the two lists have the same
\* size; a yielded description holds the most recently set values and has a
\* segment.
C10_BuildIffNonEmptyAndAligned ==
    b_lastOp = "build" =>
        /\ b_built.ok <=> (AllSet /\ AllNonEmpty /\ SameSize)
        /\ b_built.ok => YieldsTheFields(b_built)

\* C10 witness: a description built after the name was set a second time.
C10_Witness ==
    /\ b_lastOp = "build"
    /\ b_built.ok
    /\ b_built.val.name = "B"
    /\ Len(b_built.val.samples_length) = 2

(***************************************************************************)
(* config_parser.py                                                        *)
(***************************************************************************)
NAME_FIELD          == "name"
DISTRIBUTIONS_FIELD == "distributions"
LENGTHS_FIELD       == "lengths"
PARAMETERS_FIELD    == "parameters"

\* An error of the validator: the entry it names, the field its message
\* names, the element it names and the type it was checking.
Info(index, field, pos, etype) == [index |-> index, field |-> field, pos |-> pos, etype |-> etype]

\* ConfigParser._validate_description_name
_validate_description_name(index, name) ==
    IF ~Truthy(name)
    THEN Raise("ValueError", "does not contain a name", Info(index, NAME_FIELD, -1, "str"))
    ELSE IF ~IsInstance(name, "str")
    THEN Raise("TypeError", "name is not string", Info(index, NAME_FIELD, -1, "str"))
    ELSE Ok(PyNone)

\* ConfigParser._validate_description_list_field; the message of the element
\* check reads "lengths[l_idx]" for every field.
_validate_description_list_field(index, list_field, list_field_name, elements_type) ==
    IF ~Truthy(list_field)
    THEN Raise("ValueError", "does not contain a list for sub-samples",
               Info(index, list_field_name, -1, elements_type))
    ELSE IF ~IsInstance(list_field, "list")
    THEN Raise("TypeError", "is not list", Info(index, list_field_name, -1, elements_type))
    ELSE LET bad == {j \in 1..Len(list_field.v) : ~IsInstance(list_field.v[j], elements_type)} IN
         IF bad = {} THEN Ok(PyNone)
         ELSE Raise("TypeError", "element is not of the type",
                    Info(index, LENGTHS_FIELD, (CHOOSE j \in bad : \A k \in bad : j <= k) - 1,
                         elements_type))

\* The loop over zip(distributions, params) of validate_config: any exception
\* of from_str is raised again as a ValueError that names the entry.
ValidateDistributions(index, distributions, params) ==
    LET pairs == Zip(distributions, params)
        built == FirstRaise([j \in 1..Len(pairs) |-> from_str(pairs[j][1].v, pairs[j][2].v)])
    IN  IF built.ok THEN Ok(PyNone)
        ELSE Raise("ValueError", "distribution is invalid",
                   Info(index, DISTRIBUTIONS_FIELD, -1, built.what))

\* The body of the loop of validate_config, for entry descr at index
ValidateDescription(index, descr) ==
    IF ~IsInstance(descr, "dict")
    THEN Raise("TypeError", "is not a dictionary", Info(index, "", -1, "dict"))
    ELSE
    LET name          == Get(descr, NAME_FIELD)
        lengths       == Get(descr, LENGTHS_FIELD)
        distributions == Get(descr, DISTRIBUTIONS_FIELD)
        params        == Get(descr, PARAMETERS_FIELD)
        r2 == _validate_description_name(index, name)
        r3 == _validate_description_list_field(index, lengths, LENGTHS_FIELD, "int")
        r4 == _validate_description_list_field(index, distributions, DISTRIBUTIONS_FIELD, "str")
        r5 == _validate_description_list_field(index, params, PARAMETERS_FIELD, "dict")
    IN  IF ~r2.ok THEN r2
        ELSE IF ~r3.ok THEN r3
        ELSE IF ~r4.ok THEN r4
        ELSE IF ~r5.ok THEN r5
        ELSE IF ~(Len(lengths.v) = Len(distributions.v) /\ Len(distributions.v) = Len(params.v))
        THEN Raise("ValueError", "sizes are not equal", Info(index, "", -1, ""))
        ELSE ValidateDistributions(index, distributions.v, params.v)

\* ConfigParser.validate_config on the deserialized config; entries are
\* numbered from 0
validate_config(cfg) ==
    IF ~IsInstance(cfg, "list")
    THEN Raise("TypeError", "Config must be a list of dataset descriptions", NoInfo)
    ELSE FirstRaise([i \in 1..Len(cfg.v) |-> ValidateDescription(i - 1, cfg.v[i])])

\* The body of the loop of _parse_config
ParseDescription(descr) ==
    LET distrs == descr.v[DISTRIBUTIONS_FIELD].v
        params == descr.v[PARAMETERS_FIELD].v
        pairs  == Zip(distrs, params)
        built  == [j \in 1..Len(pairs) |-> from_str(pairs[j][1].v, pairs[j][2].v)]
        lens   == descr.v[LENGTHS_FIELD].v
    IN  IF ~FirstRaise(built).ok THEN FirstRaise(built)
        ELSE build(descr.v[NAME_FIELD],
                   PyList([j \in 1..Len(lens) |-> lens[j].v]),
                   PyList([j \in 1..Len(built) |-> built[j].val]))

\* _parse_config appending each description at the front of the list
_parse_config_reversed(entries) ==
    LET built == [i \in 1..Len(entries) |-> ParseDescription(entries[Len(entries) + 1 - i])] IN
    IF ~FirstRaise(built).ok THEN FirstRaise(built)
    ELSE Ok([i \in 1..Len(built) |-> built[i].val])

\* ConfigParser._parse_config, called on a config that validate_config accepted
_parse_config(entries) ==
    LET built == [i \in 1..Len(entries) |-> ParseDescription(entries[i])] IN
    IF ~FirstRaise(built).ok THEN FirstRaise(built)
    ELSE Ok([i \in 1..Len(built) |-> built[i].val])

\* ConfigParser.__init__; the file is read twice and has the same content
ConstructParser ==
    /\ pc = "start"
    /\ LET checked == validate_config(config)
           parsed  == _parse_config(config.v)
       IN  IF ~checked.ok
           THEN pc' = "failed_config" /\ outcome' = checked /\ descriptions' = <<>>
           ELSE IF ~parsed.ok
           THEN pc' = "failed_config" /\ outcome' = parsed /\ descriptions' = <<>>
           ELSE pc' = "ready" /\ outcome' = PyNone /\ descriptions' = parsed.val
    /\ UNCHANGED <<config, distrVars, genVars, builderVars, driverVars, iterVars>>

\* ConfigParser.__iter__: a new iterator of the list of descriptions
Iter ==
    /\ pc = "ready"
    /\ itRound < MaxIters
    /\ itRound' = itRound + 1
    /\ itPos' = 0
    /\ itOut' = <<>>
    /\ UNCHANGED <<parserVars, distrVars, genVars, builderVars, driverVars>>

\* next() on the iterator of the current iteration
IterNext ==
    /\ pc = "ready"
    /\ itRound >= 1
    /\ itPos < Len(descriptions)
    /\ itPos' = itPos + 1
    /\ itOut' = Append(itOut, descriptions[itPos + 1])
    /\ UNCHANGED <<itRound, parserVars, distrVars, genVars, builderVars, driverVars>>

(***************************************************************************)
(* Configs.                                                                *)
(***************************************************************************)
Absent == [t |-> "absent"]
FieldNames == {NAME_FIELD, LENGTHS_FIELD, DISTRIBUTIONS_FIELD, PARAMETERS_FIELD}

\* The mapping with the fields that are not Absent
MkEntry(name, lengths, distributions, parameters) ==
    LET kv == [k \in FieldNames |->
                  CASE k = NAME_FIELD          -> name
                    [] k = LENGTHS_FIELD       -> lengths
                    [] k = DISTRIBUTIONS_FIELD -> distributions
                    [] k = PARAMETERS_FIELD    -> parameters]
    IN  PyDict([k \in {f \in FieldNames : kv[f] # Absent} |-> kv[k]])

Good     == PyDict([k \in {MEAN_KEY, VAR_KEY} |-> IF k = MEAN_KEY THEN "0.0" ELSE "1.0"])
Good10   == PyDict([k \in {MEAN_KEY, VAR_KEY} |-> IF k = MEAN_KEY THEN "10.0" ELSE "1.0"])
NegVar   == PyDict([k \in {MEAN_KEY, VAR_KEY} |-> IF k = MEAN_KEY THEN "0.0" ELSE "-1.0"])
MeanOnly == PyDict([k \in {MEAN_KEY} |-> "0.0"])

Rep(x, n)    == PyList([j \in 1..n |-> x])
IntList(q)   == PyList([j \in 1..Len(q) |-> PyInt(q[j])])
StrList(q)   == PyList([j \in 1..Len(q) |-> PyStr(q[j])])

\* A segment of an entry: its length, the name of its distribution, its parameters
SegmentChoices == {<<1, "normal", Good>>, <<2, "poisson", Good10>>}

EntryOfSegments(name, segs) ==
    MkEntry(PyStr(name),
            PyList([j \in 1..Len(segs) |-> PyInt(segs[j][1])]),
            PyList([j \in 1..Len(segs) |-> PyStr(segs[j][2])]),
            PyList([j \in 1..Len(segs) |-> segs[j][3]]))

\* The entries of the configs given to a ConfigParser that is iterated over:
\* every choice of segments under two names, and three entries that
\* validate_config rejects.
ParserEntries ==
    {EntryOfSegments(n, segs) : n \in {"A", "B"}, segs \in SeqsUpTo(SegmentChoices, 1, MaxSegs)}
    \cup {PyStr("oops"),
          MkEntry(PyStr("A"), IntList(<<1>>), StrList(<<"normal">>), PyList(<<NegVar>>)),
          MkEntry(PyStr("A"), IntList(<<1, 1>>), StrList(<<"normal", "normal">>), PyList(<<Good>>))}

ParserInit ==
    /\ config \in {PyList(q) : q \in SeqsUpTo(ParserEntries, 0, MaxEntries)}
    /\ pc = "start"
    /\ outcome = PyNone
    /\ descriptions = <<>>
    /\ DistrIdle /\ GenIdle /\ BuilderIdle /\ DriverIdle /\ IterIdle

ParserNext == ConstructParser \/ Iter \/ IterNext
SpecParser == ParserInit /\ [][ParserNext]_vars

\* The description that entry descr of an accepted config stands for
DescriptionOf(descr) ==
    [name |-> descr.v[NAME_FIELD].v,
     samples_length |-> [j \in 1..Len(descr.v[LENGTHS_FIELD].v) |-> descr.v[LENGTHS_FIELD].v[j].v],
     samples_distributions |->
         [j \in 1..Len(descr.v[DISTRIBUTIONS_FIELD].v) |->
             from_str(descr.v[DISTRIBUTIONS_FIELD].v[j].v, descr.v[PARAMETERS_FIELD].v[j].v).val]]

\* C9: for every config that validate_config accepts, parsing does not fail
\* and yields one description per entry, in input order, each with the name,
\* the lengths and the distributions of its entry; every iteration over the
\* parser yields this sequence from the start.
C9_ParseIndexAligned ==
    (pc # "start" /\ validate_config(config).ok) =>
        /\ pc = "ready"
        /\ Len(descriptions) = Len(config.v)
        /\ \A i \in 1..Len(descriptions) : descriptions[i] = DescriptionOf(config.v[i])
        /\ itRound >= 1 => itOut = SubSeq(descriptions, 1, itPos)

\* C9 witness: the second iteration over a parser of two different entries
\* has yielded both descriptions.
C9_Witness ==
    /\ pc = "ready"
    /\ Len(descriptions) = 2
    /\ descriptions[1] # descriptions[2]
    /\ itRound = 2
    /\ itOut = descriptions

(***************************************************************************)
(* main.py                                                                 *)
(***************************************************************************)
\* descr.attr on a SampleDescription
GetAttr(descr, attr) ==
    CASE attr \notin SampleDescriptionAttrs ->
            Raise("AttributeError", "'SampleDescription' object has no attribute", 
                  Info(-1, attr, -1, ""))
      [] attr = "_name"                  -> Ok(descr.name)
      [] attr = "_samples_length"        -> Ok(descr.samples_length)
      [] attr = "_samples_distributions" -> Ok(descr.samples_distributions)
      [] attr = "changepoints"           -> Ok(changepoints(descr))
      [] OTHER                           -> Ok(PyNone)

\* DatasetSaver.save_sample: the sink takes the sample and its description
save_sample(calls, sample, descr) == Append(calls, [sample |-> sample, descr |-> descr])

\* One pass of the loop of generate_dataset, on description idx:
\*   sample = generator.generate_sample(descr.distributions, descr.length)
\*   saver.save_sample(sample, descr)
GenerateStep ==
    /\ pc = "ready"
    /\ idx <= Len(descriptions)
    /\ LET descr   == descriptions[idx]
           distrs  == GetAttr(descr, "distributions")
           lengths == GetAttr(descr, "length")
           sample  == generate_sample(distrs.val, lengths.val)
       IN  IF ~distrs.ok
           THEN pc' = "failed_generate" /\ outcome' = distrs
                /\ UNCHANGED <<idx, genCalls, sinkCalls>>
           ELSE IF ~lengths.ok
           THEN pc' = "failed_generate" /\ outcome' = lengths
                /\ UNCHANGED <<idx, genCalls, sinkCalls>>
           ELSE /\ genCalls' = Append(genCalls, [distributions |-> distrs.val,
                                                 lengths |-> lengths.val])
                /\ IF ~sample.ok
                   THEN pc' = "failed_generate" /\ outcome' = sample
                        /\ UNCHANGED <<idx, sinkCalls>>
                   ELSE /\ sinkCalls' = save_sample(sinkCalls, sample.val, descr)
                        /\ idx' = idx + 1
                        /\ UNCHANGED <<pc, outcome>>
    /\ UNCHANGED <<config, descriptions, distrVars, genVars, builderVars, iterVars>>

\* The loop of generate_dataset has no description left: main returns
Finish ==
    /\ pc = "ready"
    /\ idx > Len(descriptions)
    /\ pc' = "done"
    /\ UNCHANGED <<config, outcome, descriptions, driverVars,
                   distrVars, genVars, builderVars, iterVars>>

\* The entries of the configs given to main.
SizedLists(x) == {Absent} \cup {Rep(x, n) : n \in 1..MaxSegs}

NameFaultEntries ==
    {MkEntry(n, l, Rep(PyStr("normal"), 1), Rep(Good, 1)) :
        n \in {Absent, PyStr(""), PyInt(7)}, l \in {Absent, Rep(PyInt(1), 1)}}

ListShapeEntries ==
    {MkEntry(PyStr("A"), l, d, p) :
        l \in SizedLists(PyInt(1)), d \in SizedLists(PyStr("normal")), p \in SizedLists(Good)}

TypeFaultEntries ==
    {MkEntry(PyStr("A"), l, Rep(PyStr("normal"), 1), Rep(Good, 1)) :
        l \in {PyStr("x"), PyList(<<>>), PyList(<<PyStr("x")>>)}}
    \cup {MkEntry(PyStr("A"), Rep(PyInt(1), 1), d, p) :
        d \in {PyInt(5), PyList(<<PyInt(5)>>)}, p \in {Absent, Rep(Good, 1)}}
    \cup {MkEntry(PyStr("A"), Rep(PyInt(1), 1), Rep(PyStr("normal"), 1), p) :
        p \in {PyStr("x"), PyList(<<PyStr("x")>>)}}

ConstructEntries ==
    {MkEntry(PyStr("B"), Rep(PyInt(1), 1), Rep(PyStr(n), 1), Rep(p, 1)) :
        n \in DistrNames, p \in {Good, NegVar, MeanOnly}}
    \cup {MkEntry(PyStr("B"), Rep(PyInt(1), 2), StrList(<<"normal", n>>), PyList(<<Good10, p>>)) :
        n \in DistrNames, p \in {Good, NegVar, MeanOnly}}

LengthEntries ==
    {MkEntry(PyStr("C"), IntList(q), Rep(PyStr("normal"), Len(q)), Rep(Good, Len(q))) :
        q \in SeqsUpTo(LengthValues, 1, MaxSegs + 1)}

MainEntries ==
    {PyStr("oops")} \cup NameFaultEntries \cup ListShapeEntries \cup TypeFaultEntries
    \cup ConstructEntries \cup LengthEntries

Init ==
    /\ config \in {PyNone} \cup {PyList(q) : q \in SeqsUpTo(MainEntries, 0, MaxEntries)}
    /\ pc = "start"
    /\ outcome = PyNone
    /\ descriptions = <<>>
    /\ idx = 1 /\ genCalls = <<>> /\ sinkCalls = <<>>
    /\ DistrIdle /\ GenIdle /\ BuilderIdle /\ IterIdle

Next == ConstructParser \/ GenerateStep \/ Finish
Spec == Init /\ [][Next]_vars

(***************************************************************************)
(* The checks of an entry, as the validator is specified: the entry is a   *)
(* mapping (1); it has a non-empty string name (2), a non-empty list of    *)
(* integer lengths (3), of string distributions (4) and of parameter       *)
(* mappings (5); the three lists have one size (6); every distribution is  *)
(* constructed from its name and parameters (7).                           *)
(***************************************************************************)
IsListOf(x, ty) ==
    /\ x.t = "list"
    /\ x.v # <<>>
    /\ \A j \in 1..Len(x.v) : x.v[j].t = ty

Registered == {NORMAL}
Constructs(name, params) == name \in Registered /\ from_params(params).ok

Passes(c, e) ==
    CASE c = 1 -> e.t = "dict"
      [] c = 2 -> Get(e, NAME_FIELD).t = "str" /\ Get(e, NAME_FIELD).v # ""
      [] c = 3 -> IsListOf(Get(e, LENGTHS_FIELD), "int")
      [] c = 4 -> IsListOf(Get(e, DISTRIBUTIONS_FIELD), "str")
      [] c = 5 -> IsListOf(Get(e, PARAMETERS_FIELD), "dict")
      [] c = 6 -> /\ Len(e.v[LENGTHS_FIELD].v) = Len(e.v[DISTRIBUTIONS_FIELD].v)
                  /\ Len(e.v[LENGTHS_FIELD].v) = Len(e.v[PARAMETERS_FIELD].v)
      [] c = 7 -> \A j \in 1..Len(e.v[DISTRIBUTIONS_FIELD].v) :
                      Constructs(e.v[DISTRIBUTIONS_FIELD].v[j].v, e.v[PARAMETERS_FIELD].v[j].v)

\* The first check that entry e fails, in the order 1..7; 0 when it fails none
RECURSIVE FirstFailingFrom(_, _)
FirstFailingFrom(c, e) ==
    IF c > 7 THEN 0
    ELSE IF ~Passes(c, e) THEN c
    ELSE FirstFailingFrom(c + 1, e)
FirstFailing(e) == FirstFailingFrom(1, e)

FailingEntries(cfg) == {i \in 1..Len(cfg.v) : FirstFailing(cfg.v[i]) # 0}
LowestFailing(cfg) == CHOOSE i \in FailingEntries(cfg) : \A k \in FailingEntries(cfg) : i <= k

\* The check an error of validate_config reports
CheckOf(err) ==
    CASE err.what = "is not a dictionary" -> 1
      [] err.what \in {"does not contain a name", "name is not string"} -> 2
      [] err.what \in {"does not contain a list for sub-samples", "is not list"} ->
            (CASE err.info.field = LENGTHS_FIELD -> 3
               [] err.info.field = DISTRIBUTIONS_FIELD -> 4
               [] err.info.field = PARAMETERS_FIELD -> 5)
      [] err.what = "element is not of the type" ->
            (CASE err.info.etype = "int" -> 3
               [] err.info.etype = "str" -> 4
               [] err.info.etype = "dict" -> 5)
      [] err.what = "sizes are not equal" -> 6
      [] err.what = "distribution is invalid" -> 7
      [] OTHER -> 0

ParserConstructed == pc \in {"ready", "failed_generate", "done"}
RunEnded == pc \in {"failed_config", "failed_generate", "done"}

\* C5: validate_config is fail-fast in a fixed order: the error raised is
\* that of the first failing check (1..7) of the lowest-index failing entry
\* and names that entry's index; a config with no failing entry is accepted.
C5_FirstFailingCheckWins ==
    (pc # "start" /\ config.t = "list") =>
        IF FailingEntries(config) = {}
        THEN pc # "failed_config"
        ELSE /\ pc = "failed_config"
             /\ outcome.info.index = LowestFailing(config) - 1
             /\ CheckOf(outcome) = FirstFailing(config.v[LowestFailing(config)])

\* C6: if any entry fails validation or the construction of a distribution
\* (an unknown name included), the run aborts with that error in the
\* construction of the parser, before the generator or the sink is invoked.
C6_InvalidEntryAborts ==
    (pc # "start" /\ config.t = "list" /\ FailingEntries(config) # {}) =>
        /\ pc = "failed_config"
        /\ genCalls = <<>>
        /\ sinkCalls = <<>>

\* C7: generate_dataset invokes, for each description in ascending order,
\* the generator with its distributions and lengths and then the sink with
\* the sample and the description; when it ends the sink has received one
\* call per description, in order, each with its own description.
C7_OneSinkCallPerDescription ==
    (ParserConstructed /\ RunEnded) =>
        /\ pc = "done"
        /\ Len(genCalls) = Len(descriptions)
        /\ Len(sinkCalls) = Len(descriptions)
        /\ \A i \in 1..Len(descriptions) :
              /\ genCalls[i].distributions = descriptions[i].samples_distributions
              /\ genCalls[i].lengths = descriptions[i].samples_length
              /\ sinkCalls[i].descr = descriptions[i]
              /\ Len(sinkCalls[i].sample) = Sum(descriptions[i].samples_length)

StrictlyIncreasing(q) == \A k \in 1..(Len(q) - 1) : q[k] < q[k + 1]

\* C3: every description produced from an accepted config has
\* len(segment_lengths) - 1 change points, the prefix sums of the lengths
\* without the total, and they are strictly increasing.
C3_ChangepointsStrictlyIncreasing ==
    ParserConstructed =>
        \A i \in 1..Len(descriptions) :
            LET cps  == changepoints(descriptions[i])
                lens == descriptions[i].samples_length
            IN  /\ Len(cps) = Len(lens) - 1
                /\ \A k \in 1..Len(cps) : cps[k] = Sum(SubSeq(lens, 1, k))
                /\ StrictlyIncreasing(cps)
====
